---- MODULE Spec2Model ----
(***************************************************************************)
(* The block container of container_2d.cc: container_base_2d with its two  *)
(* subclasses container_2d (ps = 2) and container_poly_2d (ps = 3).        *)
(*                                                                         *)
(* Coordinates are exact fixed-point numbers (integers in units of half a  *)
(* block edge); rounding of double arithmetic is not part of the model.    *)
(* A block array is a sequence, slot m of the code being element m+1.      *)
(* Elements beyond mem[b] exist only after an out-of-bounds store and are  *)
(* dropped when the array is reallocated.  Of the overflow arrays only the *)
(* records below overflowPtCt are kept: no read ever reaches beyond them.  *)
(***************************************************************************)
EXTENDS Integers, Sequences, FiniteSets, TLC

VARIABLES
    poly,               \* TRUE: container_poly_2d, FALSE: container_2d
    x_prd, y_prd,       \* periodicity flags
    nt,                 \* number of threads the container was built for
    co, mem, id, p,     \* per block: count, capacity, ids, coordinates
    max_radius,         \* poly only
    max_r,              \* poly only: per-thread maximum radius
    overflowPtCt, overflow_mem_numPt, ijk_m_id_overflow, p_overflow,
    vo,                 \* the particle_order collaborator of put(vo,...)
    team,               \* threads of the running parallel region, 0: serial
    pc, loc,            \* per thread: position inside put_parallel, locals
    status,             \* "running", or how the process ended
    nextId,             \* ids handed to the insertion calls so far
    last,               \* the last insertion call and its arguments
    nMappable,          \* calls since clear whose point is in the domain
    par,                \* "none": no put_parallel accepted so far; "pending":
                        \* one accepted since the last reconcile; "reconciled"
    snap,               \* container at the start of the running batch
    max_r_oob,          \* a put_parallel indexed max_r at or past nt
    max_particle_memory, \* the ceiling of the build (a configuration header)
    live,               \* calls accepted since clear: <<id, block, slot, x, y, r>>
    cleared,            \* clear was called
    crit,               \* the thread inside #pragma omp critical, or NoThread
    opti,               \* per thread: the local opti of the critical section
    q                   \* argument and results of a remap query

vars == <<poly, x_prd, y_prd, nt, co, mem, id, p, max_radius, max_r,
          overflowPtCt, overflow_mem_numPt, ijk_m_id_overflow, p_overflow,
          vo, team, pc, loc, status, nextId, last, nMappable, par, snap,
          max_r_oob, max_particle_memory, live, cleared, crit, opti, q>>

---------------------------------------------------------------------------
(* Bounds of the model *)

MaxParticles == 3       \* insertion calls per behaviour
MaxT == 2               \* threads of a parallel region, and of nt
nx == 2                 \* blocks along x
ny == 1                 \* blocks along y
init_mem == 1           \* constructor argument init_mem
overflow_mem_init == 1  \* initial overflow_mem_numPt (64 in the code)
MinCeiling == 2         \* the hard ceiling max_particle_memory, scaled down:
MaxCeiling == 4         \* the builds of the model have one of these two
MaxImages == 2          \* periodic images on each side in a remap query
MaxSites == 2           \* particles of the container of a search query

(* Geometry: constructor arguments *)
ax == 2
ay == 1
boxx == 2
boxy == 2
bx == ax + nx * boxx
by == ay + ny * boxy
nxy == nx * ny

Blocks == 0 .. nxy - 1
Threads == 0 .. MaxT - 1
Radii == {1, 2}

(* Input points of the insertion calls: the lower corner (block 0), the    *)
(* interior of the last block of the first row, and the upper x face       *)
(* (rejected, or with x_prd the image of the lower face).                  *)
Pts == { <<ax, ay>>, <<bx - 1, ay + 1>>, <<bx, ay + 1>> }

Uninit == 0 - 1         \* an id element never written
NoCoord == <<>>         \* a coordinate element never written

---------------------------------------------------------------------------
(* Integer helpers of the repository (common.hh, not among the sources):   *)
(* step_int rounds down, step_mod is the true modulo, step_div the floor   *)
(* division.  step_int takes the quotient n/d of (x-ax)*xsp = (x-ax)/boxx. *)

step_int(n, d) == n \div d
step_mod(a, b) == a % b
step_div(a, b) == a \div b

put_remap_upper(x, y) ==
    LET i == step_int(x - ax, boxx)
        li == step_mod(i, nx)
        x1 == IF x_prd THEN x + boxx * (li - i) ELSE x
        i1 == IF x_prd THEN li ELSE i
        j == step_int(y - ay, boxy)
        lj == step_mod(j, ny)
        y1 == IF y_prd THEN y + boxy * (lj - j) ELSE y
        j1 == IF y_prd THEN lj ELSE j
    IN  IF ~x_prd /\ (i < 0 \/ i > nx)
        THEN [ok |-> FALSE, ij |-> i, x |-> x, y |-> y]
        ELSE IF ~y_prd /\ (j < 0 \/ j > ny)
        THEN [ok |-> FALSE, ij |-> i1, x |-> x1, y |-> y]
        ELSE [ok |-> TRUE, ij |-> i1 + nx * j1, x |-> x1, y |-> y1]

put_remap_noshift(x, y) ==
    LET i == step_int(x - ax, boxx)
        li == step_mod(i, nx)
        i1 == IF x_prd THEN li ELSE i
        j == step_int(y - ay, boxy)
        lj == step_mod(j, ny)
        y1 == IF y_prd THEN y + boxy * (lj - j) ELSE y
        j1 == IF y_prd THEN lj ELSE j
    IN  IF ~x_prd /\ (i < 0 \/ i >= nx)
        THEN [ok |-> FALSE, ij |-> i, x |-> x, y |-> y]
        ELSE IF ~y_prd /\ (j < 0 \/ j >= ny)
        THEN [ok |-> FALSE, ij |-> i1, x |-> x, y |-> y]
        ELSE [ok |-> TRUE, ij |-> i1 + nx * j1, x |-> x, y |-> y1]

put_remap(x, y) ==
    LET i == step_int(x - ax, boxx)
        li == step_mod(i, nx)
        x1 == IF x_prd THEN x + boxx * (li - i) ELSE x
        i1 == IF x_prd THEN li ELSE i
        j == step_int(y - ay, boxy)
        lj == step_mod(j, ny)
        y1 == IF y_prd THEN y + boxy * (lj - j) ELSE y
        j1 == IF y_prd THEN lj ELSE j
    IN  IF ~x_prd /\ (i < 0 \/ i >= nx)
        THEN [ok |-> FALSE, ij |-> i, x |-> x, y |-> y]
        ELSE IF ~y_prd /\ (j < 0 \/ j >= ny)
        THEN [ok |-> FALSE, ij |-> i1, x |-> x1, y |-> y]
        ELSE [ok |-> TRUE, ij |-> i1 + nx * j1, x |-> x1, y |-> y1]

remap_plus(x, y) ==
    LET ci0 == step_int(x - ax, boxx)
        xout == ci0 < 0 \/ ci0 >= nx
        ai == IF xout THEN step_div(ci0, nx) ELSE 0
        x1 == IF xout THEN x + ai * (bx - ax) ELSE x
        ci == IF xout THEN ci0 - ai * nx ELSE ci0
        cj0 == step_int(y - ay, boxy)
        yout == cj0 < 0 \/ cj0 >= ny
        aj == IF yout THEN step_div(cj0, ny) ELSE 0
        y1 == IF yout THEN y - aj * (by - ay) ELSE y
        cj == IF yout THEN cj0 - aj * ny ELSE cj0
    IN  IF xout /\ ~x_prd
        THEN [ok |-> FALSE, ai |-> 0, aj |-> 0, ci |-> ci0, cj |-> 0,
              x |-> x, y |-> y, ij |-> 0]
        ELSE IF yout /\ ~y_prd
        THEN [ok |-> FALSE, ai |-> ai, aj |-> 0, ci |-> ci, cj |-> cj0,
              x |-> x1, y |-> y, ij |-> 0]
        ELSE [ok |-> TRUE, ai |-> ai, aj |-> aj, ci |-> ci, cj |-> cj,
              x |-> x1, y |-> y1, ij |-> ci + nx * cj]

remap(x, y) ==
    LET ci0 == step_int(x - ax, boxx)
        xout == ci0 < 0 \/ ci0 >= nx
        ai == IF xout THEN step_div(ci0, nx) ELSE 0
        x1 == IF xout THEN x - ai * (bx - ax) ELSE x
        ci == IF xout THEN ci0 - ai * nx ELSE ci0
        cj0 == step_int(y - ay, boxy)
        yout == cj0 < 0 \/ cj0 >= ny
        aj == IF yout THEN step_div(cj0, ny) ELSE 0
        y1 == IF yout THEN y - aj * (by - ay) ELSE y
        cj == IF yout THEN cj0 - aj * ny ELSE cj0
    IN  IF xout /\ ~x_prd
        THEN [ok |-> FALSE, ai |-> 0, aj |-> 0, ci |-> ci0, cj |-> 0,
              x |-> x, y |-> y, ij |-> 0]
        ELSE IF yout /\ ~y_prd
        THEN [ok |-> FALSE, ai |-> ai, aj |-> 0, ci |-> ci, cj |-> cj0,
              x |-> x1, y |-> y, ij |-> 0]
        ELSE [ok |-> TRUE, ai |-> ai, aj |-> aj, ci |-> ci, cj |-> cj,
              x |-> x1, y |-> y1, ij |-> ci + nx * cj]

---------------------------------------------------------------------------
(* Block storage.  A container value c holds co, mem, id, p, max_radius    *)
(* and fatal (voro_fatal_error was reached).                               *)

Cont == [co |-> co, mem |-> mem, id |-> id, p |-> p,
         max_radius |-> max_radius, fatal |-> FALSE]

Coord(x, y, r) == IF poly THEN <<x, y, r>> ELSE <<x, y>>

(* new T[n], the first ncopy elements copied from src *)
NewArray(n, src, ncopy, fill) ==
    [k \in 1 .. n |-> IF k <= ncopy THEN src[k] ELSE fill]

(* arr[m] = v; a store beyond the end lands behind the array *)
StoreAt(arr, m, v, fill) ==
    IF m < Len(arr) THEN [arr EXCEPT ![m + 1] = v]
    ELSE arr \o [k \in 1 .. (m - Len(arr)) |-> fill] \o <<v>>

add_particle_memory_late(c, i) ==
    LET nmem == 2 * c.mem[i]
        g == [c EXCEPT !.mem[i] = nmem,
                       !.id[i] = NewArray(nmem, c.id[i], c.co[i], Uninit),
                       !.p[i] = NewArray(nmem, c.p[i], c.co[i], NoCoord)]
    IN  IF nmem > max_particle_memory THEN [g EXCEPT !.fatal = TRUE] ELSE g

add_particle_memory(c, i) ==
    LET nmem == 2 * c.mem[i]
    IN  IF nmem > max_particle_memory THEN [c EXCEPT !.fatal = TRUE]
        ELSE [c EXCEPT !.mem[i] = nmem,
                       !.id[i] = NewArray(nmem, c.id[i], c.co[i], Uninit),
                       !.p[i] = NewArray(nmem, c.p[i], c.co[i], NoCoord)]

put_locate_block_wrapped(c, x, y) ==
    LET rm == put_remap(x, y)
        ij == rm.ij % nxy
    IN  [ok |-> TRUE, ij |-> ij, x |-> rm.x, y |-> rm.y,
         c |-> IF c.co[ij] = c.mem[ij] THEN add_particle_memory(c, ij) ELSE c]

put_locate_block(c, x, y) ==
    LET rm == put_remap(x, y)
    IN  IF rm.ok
        THEN [ok |-> TRUE, ij |-> rm.ij, x |-> rm.x, y |-> rm.y,
              c |-> IF c.co[rm.ij] = c.mem[rm.ij]
                    THEN add_particle_memory(c, rm.ij) ELSE c]
        ELSE [ok |-> FALSE, ij |-> rm.ij, x |-> rm.x, y |-> rm.y, c |-> c]

put_store_noinc(c, ij, n, x, y, r) ==
    [c EXCEPT !.id[ij] = StoreAt(@, c.co[ij], n, Uninit),
              !.p[ij] = StoreAt(@, c.co[ij], Coord(x, y, r), NoCoord),
              !.max_radius = IF poly /\ @ < r THEN r ELSE @]

(* the body of put after put_locate_block returned true *)
put_store(c, ij, n, x, y, r) ==
    [c EXCEPT !.id[ij] = StoreAt(@, c.co[ij], n, Uninit),
              !.p[ij] = StoreAt(@, c.co[ij], Coord(x, y, r), NoCoord),
              !.co[ij] = @ + 1,
              !.max_radius = IF poly /\ @ < r THEN r ELSE @]

put(c, n, x, y, r) ==
    LET lb == put_locate_block(c, x, y)
    IN  IF lb.ok /\ ~lb.c.fatal THEN put_store(lb.c, lb.ij, n, lb.x, lb.y, r)
        ELSE lb.c

---------------------------------------------------------------------------
(* Parallel insertion.  An overflow value o holds overflowPtCt (ct),       *)
(* overflow_mem_numPt (cap), ijk_m_id_overflow (ijk) and p_overflow (pov). *)

Ovf == [ct |-> overflowPtCt, cap |-> overflow_mem_numPt,
        ijk |-> ijk_m_id_overflow, pov |-> p_overflow]

(* the copy loop of the doubling: the first n records of arr (elements    *)
(* never written are not represented)                                      *)
CopyRecords(arr, n) == SubSeq(arr, 1, IF n < Len(arr) THEN n ELSE Len(arr))

(* the statements of the critical section of put_parallel, in order:      *)
(* int opti=overflowPtCt++;                                                *)
overflow_count(o) == [o EXCEPT !.ct = @ + 1]

overflow_grow_copyless(o) ==
    IF o.ct > o.cap THEN [o EXCEPT !.cap = 2 * o.cap, !.ijk = <<>>, !.pov = <<>>]
    ELSE o

(* if(overflowPtCt>overflow_mem_numPt){ double the arrays, copy }          *)
overflow_grow(o) ==
    IF o.ct > o.cap
    THEN [o EXCEPT !.cap = 2 * o.cap,
                   !.ijk = CopyRecords(o.ijk, o.cap),
                   !.pov = CopyRecords(o.pov, o.cap)]
    ELSE o

(* ijk_m_id_overflow[3*opti..]=ij,m,i;  p_overflow[..]=x,y[,r]             *)
overflow_write(o, k, ij, m, i, xyz) ==
    [o EXCEPT !.ijk = StoreAt(@, k, <<ij, m, i>>, <<>>),
              !.pov = StoreAt(@, k, xyz, NoCoord)]

(* the critical section of put_parallel *)
overflow_append(o, ij, m, i, xyz) ==
    overflow_write(overflow_grow(overflow_count(o)), o.ct, ij, m, i, xyz)

(* the test  if(m<mem[ij])  of put_parallel *)
put_parallel_direct(m, cap) == m < cap

put_parallel_store_radius(c, o, l) ==
    IF put_parallel_direct(l.m, c.mem[l.ij])
    THEN [c |-> [c EXCEPT !.id[l.ij] = StoreAt(@, l.m, l.i, Uninit),
                          !.p[l.ij] = StoreAt(@, l.m, Coord(l.x, l.y, l.r), NoCoord),
                          !.max_radius = IF poly /\ @ < l.r THEN l.r ELSE @],
          o |-> o]
    ELSE [c |-> c,
          o |-> overflow_append(o, l.ij, l.m, l.i, Coord(l.x, l.y, l.r))]

(* put_parallel after the atomic capture m=co[ij]++, except max_r *)
put_parallel_store(c, o, l) ==
    IF put_parallel_direct(l.m, c.mem[l.ij])
    THEN [c |-> [c EXCEPT !.id[l.ij] = StoreAt(@, l.m, l.i, Uninit),
                          !.p[l.ij] = StoreAt(@, l.m, Coord(l.x, l.y, l.r), NoCoord)],
          o |-> o]
    ELSE [c |-> c,
          o |-> overflow_append(o, l.ij, l.m, l.i, Coord(l.x, l.y, l.r))]

---------------------------------------------------------------------------
(* Reconciliation *)

RECURSIVE Doubled(_, _)
(* int nmem=...; while(m>=nmem) nmem=2*nmem; *)
Doubled(nmem, m) == IF m >= nmem THEN Doubled(2 * nmem, m) ELSE nmem

reconcile_grow_short(c, ij, m) ==
    LET nmem == Doubled(2 * c.mem[ij], m)
    IN  IF nmem > max_particle_memory THEN [c EXCEPT !.fatal = TRUE]
        ELSE [c EXCEPT !.mem[ij] = nmem,
                       !.id[ij] = NewArray(nmem, c.id[ij], c.mem[ij] - 1, Uninit),
                       !.p[ij] = NewArray(nmem, c.p[ij], c.mem[ij] - 1, NoCoord)]

reconcile_grow_once(c, ij, m) ==
    LET nmem == 2 * c.mem[ij]
    IN  IF nmem > max_particle_memory THEN [c EXCEPT !.fatal = TRUE]
        ELSE [c EXCEPT !.mem[ij] = nmem,
                       !.id[ij] = NewArray(nmem, c.id[ij], c.mem[ij], Uninit),
                       !.p[ij] = NewArray(nmem, c.p[ij], c.mem[ij], NoCoord)]

(* the growth inside put_reconcile_overflow *)
reconcile_grow(c, ij, m) ==
    LET nmem == Doubled(2 * c.mem[ij], m)
    IN  IF nmem > max_particle_memory THEN [c EXCEPT !.fatal = TRUE]
        ELSE [c EXCEPT !.mem[ij] = nmem,
                       !.id[ij] = NewArray(nmem, c.id[ij], c.mem[ij], Uninit),
                       !.p[ij] = NewArray(nmem, c.p[ij], c.mem[ij], NoCoord)]

reconcile_record_bump(c, rec, xyz) ==
    LET ij == rec[1]
        m == rec[2]
        g == IF m >= c.mem[ij] THEN reconcile_grow(c, ij, m) ELSE c
    IN  IF g.fatal THEN g
        ELSE [g EXCEPT !.id[ij] = StoreAt(@, m, rec[3], Uninit),
                       !.p[ij] = StoreAt(@, m, xyz, NoCoord),
                       !.co[ij] = @ + 1]

(* one pass of the loop over the overflow records *)
reconcile_record(c, rec, xyz) ==
    LET ij == rec[1]
        m == rec[2]
        g == IF m >= c.mem[ij] THEN reconcile_grow(c, ij, m) ELSE c
    IN  IF g.fatal THEN g
        ELSE [g EXCEPT !.id[ij] = StoreAt(@, m, rec[3], Uninit),
                       !.p[ij] = StoreAt(@, m, xyz, NoCoord)]

RECURSIVE reconcile_loop(_, _, _)
(* for(int i=0;i<overflowPtCt;i++) ... *)
reconcile_loop(c, o, i) ==
    IF i >= o.ct \/ c.fatal THEN c
    ELSE reconcile_loop(reconcile_record(c, o.ijk[i + 1], o.pov[i + 1]), o, i + 1)

RECURSIVE fold_max_r(_, _, _)
(* poly: for(int i=0;i<nt;i++) if(max_radius<max_r[i]) max_radius=max_r[i]; *)
fold_max_r(mr, arr, i) ==
    IF i >= nt THEN mr
    ELSE fold_max_r(IF mr < arr[i + 1] THEN arr[i + 1] ELSE mr, arr, i + 1)

reconcile(c, o) ==
    reconcile_loop(IF poly THEN [c EXCEPT !.max_radius = fold_max_r(@, max_r, 0)]
                   ELSE c, o, 0)

---------------------------------------------------------------------------
(* clear: for(cop=co;cop<co+nxy;cop++) *cop=0; and, poly, max_radius=0 *)

clear_cont_shrink(c) ==
    [c EXCEPT !.co = [b \in Blocks |-> 0],
              !.mem = [b \in Blocks |-> init_mem],
              !.max_radius = IF poly THEN 0 ELSE @]

clear_cont(c) ==
    [c EXCEPT !.co = [b \in Blocks |-> 0],
              !.max_radius = IF poly THEN 0 ELSE @]

---------------------------------------------------------------------------
(* State *)

NoThread == 0 - 1
NoLoc == [ij |-> 0, m |-> 0, i |-> 0, x |-> 0, y |-> 0, r |-> 0]
NoSnap == [valid |-> FALSE, c |-> <<>>, pts |-> {}]
NoQuery == [x |-> 0, y |-> 0, done |-> FALSE, pr |-> <<>>, rm |-> <<>>]
Call(op, i, x, y, r) == [op |-> op, i |-> i, x |-> x, y |-> y, r |-> r]

(* the point of a call can be mapped into the primary domain: put_remap   *)
(* returns true                                                            *)
Mappable(x, y) == put_remap(x, y).ok

(* constructors of container_base_2d, container_2d, container_poly_2d *)
Constructed ==
    /\ x_prd \in BOOLEAN
    /\ nt \in 1 .. MaxT
    /\ co = [b \in Blocks |-> 0]
    /\ mem = [b \in Blocks |-> init_mem]
    /\ id = [b \in Blocks |-> [k \in 1 .. init_mem |-> Uninit]]
    /\ p = [b \in Blocks |-> [k \in 1 .. init_mem |-> NoCoord]]
    /\ max_radius = 0
    /\ max_r = IF poly THEN [k \in 1 .. nt |-> 0] ELSE <<>>
    /\ overflowPtCt = 0
    /\ overflow_mem_numPt = overflow_mem_init
    /\ ijk_m_id_overflow = <<>>
    /\ p_overflow = <<>>

(* no call made yet *)
Fresh ==
    /\ vo = <<>>
    /\ team = 0
    /\ pc = [t \in Threads |-> "idle"]
    /\ loc = [t \in Threads |-> NoLoc]
    /\ status = "running"
    /\ nextId = 0
    /\ last = Call("none", 0, 0, 0, 0)
    /\ nMappable = 0
    /\ par = "none"
    /\ snap = NoSnap
    /\ max_r_oob = FALSE
    /\ live = {}
    /\ cleared = FALSE
    /\ crit = NoThread
    /\ opti = [t \in Threads |-> 0]

Init ==
    /\ poly \in BOOLEAN
    /\ max_particle_memory \in {MinCeiling, MaxCeiling}
    /\ y_prd = FALSE
    /\ Constructed
    /\ Fresh
    /\ q = NoQuery

SetCont(c) ==
    /\ co' = c.co
    /\ mem' = c.mem
    /\ id' = c.id
    /\ p' = c.p
    /\ max_radius' = c.max_radius

SetOvf(o) ==
    /\ overflowPtCt' = o.ct
    /\ overflow_mem_numPt' = o.cap
    /\ ijk_m_id_overflow' = o.ijk
    /\ p_overflow' = o.pov

config == <<poly, x_prd, y_prd, max_particle_memory>>
contv == <<co, mem, id, p, max_radius>>
ovfv == <<overflowPtCt, overflow_mem_numPt, ijk_m_id_overflow, p_overflow>>
critv == <<crit, opti>>
thrv == <<team, pc, loc, critv>>

SerialCtx == status = "running" /\ team = 0
RadiiOf == IF poly THEN Radii ELSE {0}

(* nothing is pending and every block array has its capacity *)
Clean ==
    /\ overflowPtCt = 0
    /\ \A k \in 1 .. Len(max_r) : max_r[k] = 0
    /\ \A b \in Blocks : co[b] <= mem[b] /\ Len(id[b]) = mem[b] /\ Len(p[b]) = mem[b]

---------------------------------------------------------------------------
(* Serial insertion: put(n,x,y[,r]) and put(vo,n,x,y[,r]).  A store at a   *)
(* slot >= mem[ij] is out of bounds: it lands behind the array or the      *)
(* process dies.                                                           *)

order_pair_late(c, ij) == <<ij, c.co[ij] + 1>>

(* the arguments of vo.add(ij,co[ij]); particle_order is not among the     *)
(* sources and is taken to append the pair it is given                     *)
order_pair(c, ij) == <<ij, c.co[ij]>>

PutCall(ordered, x, y, r) ==
    /\ SerialCtx
    /\ nextId < MaxParticles
    /\ LET lb == put_locate_block(Cont, x, y)
           fatal == lb.ok /\ lb.c.fatal
           oob == lb.ok /\ ~fatal /\ lb.c.co[lb.ij] >= lb.c.mem[lb.ij]
       IN  \E oc \in (IF oob THEN {"behind", "crash"} ELSE {"ok"}) :
             /\ SetCont(IF oc = "crash" THEN Cont ELSE put(Cont, nextId, x, y, r))
             /\ status' = IF fatal THEN "VOROPP_MEMORY_ERROR"
                          ELSE IF oc = "crash" THEN "SIGSEGV" ELSE status
             /\ vo' = IF ordered /\ lb.ok /\ ~fatal /\ oc # "crash"
                      THEN Append(vo, order_pair(lb.c, lb.ij)) ELSE vo
             /\ live' = IF lb.ok /\ ~fatal /\ oc # "crash"
                        THEN live \cup {<<nextId, lb.ij, lb.c.co[lb.ij],
                                          lb.x, lb.y, r>>}
                        ELSE live
    /\ nextId' = nextId + 1
    /\ last' = Call(IF ordered THEN "put_order" ELSE "put", nextId, x, y, r)
    /\ nMappable' = nMappable + (IF Mappable(x, y) THEN 1 ELSE 0)
    /\ snap' = NoSnap
    /\ UNCHANGED <<config, nt, max_r, ovfv, thrv, par, max_r_oob, cleared, q>>

Put == \E pt \in Pts, r \in RadiiOf : PutCall(FALSE, pt[1], pt[2], r)

PutOrder == \E pt \in Pts, r \in RadiiOf : PutCall(TRUE, pt[1], pt[2], r)

---------------------------------------------------------------------------
(* Parallel insertion: a region of n threads (the batched put_parallel, or *)
(* a caller's own region; n = 1 is also a call from the serial thread).    *)

ParallelBegin ==
    \E n \in 1 .. MaxT :
        /\ SerialCtx
        /\ nextId < MaxParticles
        /\ team' = n
        /\ snap' = IF Clean /\ (poly => n <= nt)
                   THEN [valid |-> TRUE, c |-> Cont, pts |-> {}]
                   ELSE IF snap.valid /\ last.op # "reconcile" /\ (poly => n <= nt)
                   THEN snap ELSE NoSnap
        /\ UNCHANGED <<config, nt, contv, max_r, ovfv, vo, pc, loc, status,
                       nextId, last, nMappable, par, max_r_oob, live, cleared, critv, q>>

capture_lost(c, ij) == [m |-> c.co[ij], co |-> c.co]

(* #pragma omp atomic capture  m=co[ij]++ : one indivisible step *)
capture(c, ij) == [m |-> c.co[ij], co |-> [c.co EXCEPT ![ij] = @ + 1]]

(* put_parallel up to the atomic capture  m=co[ij]++ *)
PPReserve ==
    \E t \in Threads, pt \in Pts, r \in RadiiOf :
        /\ status = "running" /\ t < team /\ pc[t] = "idle"
        /\ nextId < MaxParticles
        /\ LET rm == put_remap(pt[1], pt[2])
           IN  IF rm.ok
               THEN /\ co' = capture(Cont, rm.ij).co
                    /\ pc' = [pc EXCEPT ![t] = "reserved"]
                    /\ loc' = [loc EXCEPT ![t] =
                                 [ij |-> rm.ij, m |-> capture(Cont, rm.ij).m,
                                  i |-> nextId, x |-> rm.x, y |-> rm.y, r |-> r]]
                    /\ par' = "pending"
                    /\ live' = live \cup {<<nextId, rm.ij, capture(Cont, rm.ij).m,
                                            rm.x, rm.y, r>>}
               ELSE UNCHANGED <<co, pc, loc, par, live>>
        /\ nextId' = nextId + 1
        /\ last' = Call("put_parallel", nextId, pt[1], pt[2], r)
        /\ nMappable' = nMappable + (IF Mappable(pt[1], pt[2]) THEN 1 ELSE 0)
        /\ snap' = IF snap.valid
                   THEN [snap EXCEPT !.pts = @ \cup {<<nextId, pt[1], pt[2], r>>}]
                   ELSE snap
        /\ UNCHANGED <<config, nt, mem, id, p, max_radius, max_r, ovfv, vo,
                       team, status, max_r_oob, cleared, critv, q>>

(* put_parallel after the capture: the direct store or the critical        *)
(* section, and for poly max_r[ithread]; with ithread >= nt that access is *)
(* out of bounds.                                                          *)
PPStore ==
    \E t \in Threads :
        /\ status = "running" /\ t < team /\ pc[t] = "reserved"
        /\ LET s == put_parallel_store(Cont, Ovf, loc[t])
               oob == poly /\ t >= nt
           IN  \E oc \in (IF oob THEN {"behind", "crash"} ELSE {"ok"}) :
                 /\ SetCont(s.c)
                 /\ SetOvf(s.o)
                 /\ max_r' = IF poly /\ ~oob /\ max_r[t + 1] < loc[t].r
                             THEN [max_r EXCEPT ![t + 1] = loc[t].r] ELSE max_r
                 /\ status' = IF oc = "crash" THEN "SIGSEGV" ELSE status
                 /\ max_r_oob' = (max_r_oob \/ oob)
        /\ pc' = [pc EXCEPT ![t] = "idle"]
        /\ loc' = [loc EXCEPT ![t] = NoLoc]
        /\ UNCHANGED <<config, nt, vo, team, nextId, last, nMappable, par,
                       snap, live, cleared, critv, q>>

(* the join at the end of the parallel region *)
ParallelEnd ==
    /\ status = "running" /\ team > 0
    /\ \A t \in Threads : pc[t] = "idle"
    /\ team' = 0
    /\ UNCHANGED <<config, nt, contv, max_r, ovfv, vo, pc, loc, status,
                   nextId, last, nMappable, par, snap, max_r_oob, live, cleared,
                   critv, q>>

---------------------------------------------------------------------------
(* put_reconcile_overflow, clear, change_number_thread *)

put_reconcile_overflow ==
    /\ SerialCtx
    /\ LET c == reconcile(Cont, Ovf)
       IN  /\ SetCont(c)
           /\ status' = IF c.fatal THEN "VOROPP_MEMORY_ERROR" ELSE status
           /\ overflowPtCt' = IF c.fatal THEN overflowPtCt ELSE 0
           /\ ijk_m_id_overflow' = IF c.fatal THEN ijk_m_id_overflow ELSE <<>>
           /\ p_overflow' = IF c.fatal THEN p_overflow ELSE <<>>
    /\ max_r' = IF poly THEN [k \in 1 .. nt |-> 0] ELSE max_r
    /\ par' = IF par = "none" THEN "none" ELSE "reconciled"
    /\ last' = Call("reconcile", 0, 0, 0, 0)
    /\ UNCHANGED <<config, nt, overflow_mem_numPt, vo, thrv, nextId,
                   nMappable, snap, max_r_oob, live, cleared, q>>

clear ==
    /\ SerialCtx
    /\ SetCont(clear_cont(Cont))
    /\ nMappable' = 0
    /\ last' = Call("clear", 0, 0, 0, 0)
    /\ snap' = NoSnap
    /\ live' = {}
    /\ cleared' = TRUE
    /\ UNCHANGED <<config, nt, max_r, ovfv, vo, thrv, status,
                   nextId, par, max_r_oob, q>>

rebuild_max_r_kept(n) == max_r

(* poly: delete [] max_r; max_r=new double[nt]; max_r[t_num()]=0.0 *)
rebuild_max_r(n) == IF poly THEN [k \in 1 .. n |-> 0] ELSE max_r

change_number_thread ==
    \E n \in 1 .. MaxT :
        /\ SerialCtx
        /\ nt' = n
        /\ max_r' = rebuild_max_r(n)
        /\ last' = Call("change_number_thread", n, 0, 0, 0)
        /\ snap' = NoSnap
        /\ UNCHANGED <<config, contv, ovfv, vo, thrv, status, nextId,
                       nMappable, par, max_r_oob, live, cleared, q>>

Next ==
    \/ Put
    \/ PutOrder
    \/ ParallelBegin
    \/ PPReserve
    \/ PPStore
    \/ ParallelEnd
    \/ put_reconcile_overflow
    \/ clear
    \/ change_number_thread

Spec == Init /\ [][Next]_vars

---------------------------------------------------------------------------
(* The parallel region statement by statement: the direct store, and the   *)
(* critical section taken apart into entry, opti=overflowPtCt++, the       *)
(* doubling, and the write of the record with the exit.  PPStore is the    *)
(* same code with the critical section as one step.                        *)

critical_ignored(c) == TRUE

(* #pragma omp critical: a thread enters when no thread is inside *)
critical_free(c) == c = NoThread

critical_kept(t) == t

(* the closing brace of the critical section: the thread t leaves *)
critical_exit(t) == NoThread

CritPcs == {"critical", "counted", "grown"}

PPDirect ==
    /\ PPStore
    /\ \E t \in Threads : /\ pc[t] = "reserved" /\ pc'[t] = "idle"
                          /\ put_parallel_direct(loc[t].m, mem[loc[t].ij])

CritEnter ==
    \E t \in Threads :
        /\ status = "running" /\ t < team /\ pc[t] = "reserved"
        /\ ~put_parallel_direct(loc[t].m, mem[loc[t].ij])
        /\ critical_free(crit)
        /\ crit' = t
        /\ pc' = [pc EXCEPT ![t] = "critical"]
        /\ UNCHANGED <<config, nt, contv, max_r, ovfv, vo, team, loc, opti,
                       status, nextId, last, nMappable, par, snap, max_r_oob,
                       live, cleared, q>>

CritCount ==
    \E t \in Threads :
        /\ status = "running" /\ t < team /\ pc[t] = "critical"
        /\ opti' = [opti EXCEPT ![t] = overflowPtCt]
        /\ SetOvf(overflow_count(Ovf))
        /\ pc' = [pc EXCEPT ![t] = "counted"]
        /\ UNCHANGED <<config, nt, contv, max_r, vo, team, loc, crit,
                       status, nextId, last, nMappable, par, snap, max_r_oob,
                       live, cleared, q>>

CritGrow ==
    \E t \in Threads :
        /\ status = "running" /\ t < team /\ pc[t] = "counted"
        /\ SetOvf(overflow_grow(Ovf))
        /\ pc' = [pc EXCEPT ![t] = "grown"]
        /\ UNCHANGED <<config, nt, contv, max_r, vo, team, loc, critv,
                       status, nextId, last, nMappable, par, snap, max_r_oob,
                       live, cleared, q>>

CritWrite ==
    \E t \in Threads :
        /\ status = "running" /\ t < team /\ pc[t] = "grown"
        /\ LET l == loc[t]
               oob == poly /\ t >= nt
           IN  \E oc \in (IF oob THEN {"behind", "crash"} ELSE {"ok"}) :
                 /\ SetOvf(overflow_write(Ovf, opti[t], l.ij, l.m, l.i,
                                          Coord(l.x, l.y, l.r)))
                 /\ max_r' = IF poly /\ ~oob /\ max_r[t + 1] < l.r
                             THEN [max_r EXCEPT ![t + 1] = l.r] ELSE max_r
                 /\ status' = IF oc = "crash" THEN "SIGSEGV" ELSE status
                 /\ max_r_oob' = (max_r_oob \/ oob)
        /\ crit' = critical_exit(t)
        /\ pc' = [pc EXCEPT ![t] = "idle"]
        /\ loc' = [loc EXCEPT ![t] = NoLoc]
        /\ UNCHANGED <<config, nt, contv, vo, team, opti, nextId, last,
                       nMappable, par, snap, live, cleared, q>>

NextCrit ==
    \/ ParallelBegin
    \/ PPReserve
    \/ PPDirect
    \/ CritEnter
    \/ CritCount
    \/ CritGrow
    \/ CritWrite
    \/ ParallelEnd

SpecCrit == Init /\ [][NextCrit]_vars

(* fair scheduling: a thread that can take its next statement, and keeps   *)
(* being able to, takes it; the region ends once every thread is done      *)
FairCrit ==
    /\ WF_vars(PPDirect)
    /\ WF_vars(CritEnter)
    /\ WF_vars(CritCount)
    /\ WF_vars(CritGrow)
    /\ WF_vars(CritWrite)
    /\ WF_vars(ParallelEnd)

SpecCritFair == SpecCrit /\ FairCrit

---------------------------------------------------------------------------
(* The remap queries: put_remap and remap applied to one point *)

QueryX == (ax - MaxImages * (bx - ax)) .. (bx + MaxImages * (bx - ax))
QueryY == (ay - MaxImages * (by - ay)) .. (by + MaxImages * (by - ay))

InitRemap ==
    /\ poly = FALSE
    /\ max_particle_memory = MinCeiling
    /\ y_prd \in BOOLEAN
    /\ Constructed
    /\ Fresh
    /\ q \in [x : QueryX, y : QueryY, done : {FALSE}, pr : {<<>>}, rm : {<<>>}]

RemapQuery ==
    /\ ~q.done
    /\ q' = [q EXCEPT !.done = TRUE, !.pr = put_remap(q.x, q.y),
                      !.rm = remap(q.x, q.y)]
    /\ UNCHANGED <<config, nt, contv, max_r, ovfv, vo, thrv, status, nextId,
                   last, nMappable, par, snap,
                   max_r_oob, live, cleared>>

NextRemap == RemapQuery

SpecRemap == InitRemap /\ [][NextRemap]_vars

---------------------------------------------------------------------------
(* find_voronoi_cell.  The search of voro_compute_2d is not among the      *)
(* sources: it is taken to return, as the record w, a stored particle (or  *)
(* a periodic image of one) that no other is strictly closer to than, in   *)
(* the squared distance for container_2d and in the power distance for     *)
(* container_poly_2d; w.di, w.dj is the displacement in blocks from the    *)
(* block of the query to the block of that image; w.ij = -1: none found.   *)

Unset == 0 - 100
NoRecord == [ij |-> 0 - 1, l |-> 0, di |-> 0, dj |-> 0]
NoResult == [found |-> FALSE, rx |-> Unset, ry |-> Unset, pid |-> Unset,
             searched |-> FALSE]

(* squared distance from (x,y) to the site s = <<sx, sy[, r]>> shifted by  *)
(* (kx,ky) periods, less r*r for poly                                      *)
Dist(x, y, s, kx, ky) ==
    LET dx == s[1] + kx * (bx - ax) - x
        dy == s[2] + ky * (by - ay) - y
    IN  dx * dx + dy * dy - (IF poly THEN s[3] * s[3] ELSE 0)

(* stored particles and the images the search looks at *)
Sites == {<<b, m>> \in Blocks \X (0 .. MaxSites - 1) : m < co[b]}
ImagesX(n) == IF x_prd THEN (0 - n) .. n ELSE {0}
ImagesY(n) == IF y_prd THEN (0 - n) .. n ELSE {0}

vc_find_voronoi_cell(x, y, ci, cj) ==
    LET cand == Sites \X ImagesX(1) \X ImagesY(1)
        d(c) == Dist(x, y, p[c[1][1]][c[1][2] + 1], c[2], c[3])
        best == {c \in cand : \A e \in cand : d(c) <= d(e)}
    IN  IF cand = {} THEN {NoRecord}
        ELSE {[ij |-> c[1][1], l |-> c[1][2],
               di |-> (c[1][1] % nx) + c[2] * nx - ci,
               dj |-> (c[1][1] \div nx) + c[3] * ny - cj] : c \in best}

find_voronoi_cell_unchecked(x, y, w) ==
    LET rm == remap(x, y)
        ci == IF x_prd THEN rm.ci + w.di ELSE rm.ci
        ai == IF x_prd /\ (ci < 0 \/ ci >= nx)
              THEN rm.ai + step_div(ci, nx) ELSE rm.ai
        cj == IF y_prd THEN rm.cj + w.dj ELSE rm.cj
        aj == IF y_prd /\ (cj < 0 \/ cj >= ny)
              THEN rm.aj + step_div(cj, ny) ELSE rm.aj
    IN  IF w.ij # 0 - 1
        THEN [found |-> TRUE,
              rx |-> p[w.ij][w.l + 1][1] + ai * (bx - ax),
              ry |-> p[w.ij][w.l + 1][2] + aj * (by - ay),
              pid |-> id[w.ij][w.l + 1], searched |-> TRUE]
        ELSE [NoResult EXCEPT !.searched = TRUE]

find_voronoi_cell_noimage(x, y, w) ==
    LET rm == remap(x, y)
    IN  IF ~rm.ok THEN NoResult
        ELSE IF w.ij # 0 - 1
        THEN [found |-> TRUE,
              rx |-> p[w.ij][w.l + 1][1] + rm.ai * (bx - ax),
              ry |-> p[w.ij][w.l + 1][2] + rm.aj * (by - ay),
              pid |-> id[w.ij][w.l + 1], searched |-> TRUE]
        ELSE [NoResult EXCEPT !.searched = TRUE]

(* find_voronoi_cell(x,y,rx,ry,pid), w the record the search returned *)
find_voronoi_cell(x, y, w) ==
    LET rm == remap(x, y)
        ci == IF x_prd THEN rm.ci + w.di ELSE rm.ci
        ai == IF x_prd /\ (ci < 0 \/ ci >= nx)
              THEN rm.ai + step_div(ci, nx) ELSE rm.ai
        cj == IF y_prd THEN rm.cj + w.dj ELSE rm.cj
        aj == IF y_prd /\ (cj < 0 \/ cj >= ny)
              THEN rm.aj + step_div(cj, ny) ELSE rm.aj
    IN  IF ~rm.ok THEN NoResult
        ELSE IF w.ij # 0 - 1
        THEN [found |-> TRUE,
              rx |-> p[w.ij][w.l + 1][1] + ai * (bx - ax),
              ry |-> p[w.ij][w.l + 1][2] + aj * (by - ay),
              pid |-> id[w.ij][w.l + 1], searched |-> TRUE]
        ELSE [NoResult EXCEPT !.searched = TRUE]

(* the containers of the search queries: up to MaxSites serial puts *)
SiteCalls(k) == {<<k, pt[1], pt[2], r>> : pt \in Pts, r \in RadiiOf}
RECURSIVE SiteSeqsOf(_)
SiteSeqsOf(n) ==
    IF n = 0 THEN {<<>>}
    ELSE LET S == SiteSeqsOf(n - 1)
         IN  S \cup {Append(t, a) : t \in {u \in S : Len(u) = n - 1},
                                    a \in SiteCalls(n - 1)}
SiteSeqs == SiteSeqsOf(MaxSites)

RECURSIVE SerialAll(_, _)
(* serial put of the calls of sq, in order *)
SerialAll(c, sq) ==
    IF sq = <<>> \/ c.fatal THEN c
    ELSE SerialAll(put(c, sq[1][1], sq[1][2], sq[1][3], sq[1][4]), Tail(sq))

(* a container after the serial puts of one of SiteSeqs; the variables of  *)
(* the call history stay as constructed, no search reads them              *)
InitFind ==
    /\ poly \in BOOLEAN
    /\ x_prd \in BOOLEAN
    /\ y_prd \in BOOLEAN
    /\ max_particle_memory = MaxCeiling
    /\ nt = 1
    /\ \E sq \in SiteSeqs :
          LET c == SerialAll([co |-> [b \in Blocks |-> 0],
                           mem |-> [b \in Blocks |-> init_mem],
                           id |-> [b \in Blocks |-> [k \in 1 .. init_mem |-> Uninit]],
                           p |-> [b \in Blocks |-> [k \in 1 .. init_mem |-> NoCoord]],
                           max_radius |-> 0, fatal |-> FALSE], sq)
          IN  /\ co = c.co /\ mem = c.mem /\ id = c.id /\ p = c.p
              /\ max_radius = c.max_radius
    /\ max_r = IF poly THEN <<0>> ELSE <<>>
    /\ overflowPtCt = 0
    /\ overflow_mem_numPt = overflow_mem_init
    /\ ijk_m_id_overflow = <<>>
    /\ p_overflow = <<>>
    /\ Fresh
    /\ q \in [x : QueryX, y : QueryY, done : {FALSE}, w : {NoRecord},
              res : {NoResult}]

FindQuery ==
    /\ ~q.done
    /\ LET rm == remap(q.x, q.y)
       IN  \E w \in (IF rm.ok THEN vc_find_voronoi_cell(rm.x, rm.y, rm.ci, rm.cj)
                     ELSE {NoRecord}) :
             q' = [q EXCEPT !.done = TRUE, !.w = w,
                            !.res = find_voronoi_cell(q.x, q.y, w)]
    /\ UNCHANGED <<config, nt, contv, max_r, ovfv, vo, thrv, status, nextId,
                   last, nMappable, par, snap, max_r_oob, live, cleared>>

NextFind == FindQuery

SpecFind == InitFind /\ [][NextFind]_vars

---------------------------------------------------------------------------
(* point_inside.  point_inside_walls (wall_list_2d) is not among the       *)
(* sources: w is the value it returns for the point, and the result        *)
(* records whether it was called.                                          *)

point_inside_lower(x, y, w) ==
    IF x < ax \/ y < ay THEN [ret |-> FALSE, walls |-> FALSE]
    ELSE [ret |-> w, walls |-> TRUE]

point_inside(x, y, w) ==
    IF x < ax \/ x > bx \/ y < ay \/ y > by
    THEN [ret |-> FALSE, walls |-> FALSE]
    ELSE [ret |-> w, walls |-> TRUE]

InitInside ==
    /\ poly \in BOOLEAN
    /\ max_particle_memory = MinCeiling
    /\ y_prd \in BOOLEAN
    /\ Constructed
    /\ Fresh
    /\ q \in [x : QueryX, y : QueryY, w : BOOLEAN, done : {FALSE},
              res : {[ret |-> FALSE, walls |-> FALSE]}]

InsideQuery ==
    /\ ~q.done
    /\ q' = [q EXCEPT !.done = TRUE, !.res = point_inside(q.x, q.y, q.w)]
    /\ UNCHANGED <<config, nt, contv, max_r, ovfv, vo, thrv, status, nextId,
                   last, nMappable, par, snap, max_r_oob, live, cleared>>

NextInside == InsideQuery

SpecInside == InitInside /\ [][NextInside]_vars

---------------------------------------------------------------------------
(* Properties *)

RECURSIVE SumTo(_, _)
SumTo(f, n) == IF n < 0 THEN 0 ELSE f[n] + SumTo(f, n - 1)
SumCo == SumTo(co, nxy - 1)

Running == status = "running"
SerialPutOps == {"put", "put_order"}
InsertOps == {"put", "put_order", "put_parallel"}

(* the step is one insertion call (each call takes the next id) *)
InsertStep == nextId' = nextId + 1

(* records of the overflow buffer for slot m of block b *)
RecordsOf(b, m) ==
    {k \in 1 .. overflowPtCt :
        ijk_m_id_overflow[k][1] = b /\ ijk_m_id_overflow[k][2] = m}

(* threads that reserved slot m of block b and have not stored yet *)
PendingOf(b, m) ==
    {t \in Threads : pc[t] = "reserved" /\ loc[t].ij = b /\ loc[t].m = m}

(* slot m of block b holds a particle that was written there *)
Stored(b, m) ==
    /\ m < co[b] /\ m < Len(id[b])
    /\ id[b][m + 1] # Uninit
    /\ RecordsOf(b, m) = {} /\ PendingOf(b, m) = {}

RECURSIVE Perms(_)
Perms(S) ==
    IF S = {} THEN {<<>>}
    ELSE UNION {{<<e>> \o t : t \in Perms(S \ {e})} : e \in S}

SameStored(c, d) ==
    /\ ~c.fatal /\ ~d.fatal
    /\ c.co = d.co /\ c.mem = d.mem /\ c.max_radius = d.max_radius
    /\ \A b \in Blocks : \A m \in 0 .. c.co[b] - 1 :
          /\ m < Len(c.id[b]) /\ m < Len(d.id[b])
          /\ c.id[b][m + 1] = d.id[b][m + 1]
          /\ c.p[b][m + 1] = d.p[b][m + 1]

(* C1: in every state of a running container the counts co[b] add up to   *)
(* the number of calls since clear whose point could be mapped into the    *)
(* domain, and unless a put_parallel was accepted since the last           *)
(* put_reconcile_overflow the overflow count is 0.                         *)
C1_CountsAgree ==
    Running => /\ SumCo = nMappable
               /\ par # "pending" => overflowPtCt = 0

(* a serial put, then a batch that overflowed that block, then reconcile *)
C1_Witness ==
    /\ Running /\ last.op = "reconcile" /\ snap.valid
    /\ \E b \in Blocks : snap.c.co[b] > 0 /\ mem[b] > snap.c.mem[b]
    /\ SumCo = nMappable /\ overflowPtCt = 0

(* C2: right after put_reconcile_overflow 0 <= co[b] <= mem[b] for every   *)
(* block; while a parallel region runs every reserved slot m >= mem[b] has *)
(* exactly one overflow record (or the thread that reserved it has not     *)
(* stored yet), and a put_parallel store changes id/p at most at its own   *)
(* slot, and only if that slot is below mem[b].                            *)
C2_CapacityRespected ==
    /\ [](Running /\ last.op = "reconcile" =>
             \A b \in Blocks : 0 <= co[b] /\ co[b] <= mem[b])
    /\ [](Running /\ team > 0 =>
             \A b \in Blocks : \A m \in mem[b] .. co[b] - 1 :
                 Cardinality(RecordsOf(b, m)) + Cardinality(PendingOf(b, m)) = 1)
    /\ [][\A t \in Threads : pc[t] = "reserved" /\ pc'[t] = "idle" =>
             \/ id' = id /\ p' = p
             \/ /\ loc[t].m < mem[loc[t].ij]
                /\ id' = [id EXCEPT ![loc[t].ij][loc[t].m + 1] = loc[t].i]
                /\ p' = [p EXCEPT ![loc[t].ij][loc[t].m + 1] =
                                       Coord(loc[t].x, loc[t].y, loc[t].r)]]_vars

C4_StoredStays ==
    [][Running /\ status' = "running" /\ last'.op # "clear" =>
          \A b \in Blocks : \A m \in 0 .. co[b] - 1 :
              Stored(b, m) => /\ m < Len(id'[b]) /\ m < Len(p'[b])
                              /\ id'[b][m + 1] = id[b][m + 1]
                              /\ p'[b][m + 1] = p[b][m + 1]]_vars

(* C5: poly: right after put_reconcile_overflow, and after every serial    *)
(* put when no put_parallel was ever accepted, max_radius is at least the  *)
(* radius of every particle in the slots below co; stated for the runs in  *)
(* which every put_parallel indexed max_r below nt.                        *)
C5_MaxRadiusBounds ==
    /\ poly /\ Running /\ ~max_r_oob
    /\ last.op = "reconcile" \/ (par = "none" /\ last.op \in SerialPutOps)
    => \A b \in Blocks : \A m \in 0 .. co[b] - 1 :
          m < Len(p[b]) /\ Len(p[b][m + 1]) = 3 => p[b][m + 1][3] <= max_radius

(* C6: an insertion call (put, put with ordering, put_parallel) whose      *)
(* point cannot be mapped into the domain changes nothing of the           *)
(* container: co, mem, id, p, the overflow buffer, max_radius, max_r and   *)
(* the ordering keep their values and the process keeps running.           *)
C6_RejectedChangesNothing ==
    [][InsertStep /\ ~Mappable(last'.x, last'.y) =>
          /\ UNCHANGED <<contv, ovfv, max_r, vo, nt, status>>
          /\ UNCHANGED <<pc, loc>>]_vars

(* a rejected call on a container that already holds a particle *)
C6_Witness ==
    /\ Running /\ last.op \in InsertOps /\ ~Mappable(last.x, last.y)
    /\ last.i = nextId - 1 /\ SumCo >= 1

(* C7: on a non-periodic axis put_remap accepts exactly the coordinates in *)
(* [ax,bx) (resp. [ay,by)): the upper face is rejected, the lower face is  *)
(* accepted into block index 0.                                            *)
C7_HalfOpenDomain ==
    q.done =>
        /\ q.pr.ok <=> /\ x_prd \/ (ax <= q.x /\ q.x < bx)
                       /\ y_prd \/ (ay <= q.y /\ q.y < by)
        /\ ~x_prd /\ q.x = bx => ~q.pr.ok
        /\ ~y_prd /\ q.y = by => ~q.pr.ok
        /\ q.pr.ok /\ ~x_prd /\ q.x = ax => q.pr.ij % nx = 0
        /\ q.pr.ok /\ ~y_prd /\ q.y = ay => q.pr.ij \div nx = 0

(* the upper x face of a non-periodic axis, all else in range: rejected *)
C7_Witness ==
    q.done /\ ~x_prd /\ q.x = bx /\ ay <= q.y /\ q.y < by /\ ~q.pr.ok

(* C8: on a periodic axis put_remap takes the block index i to i mod nx in *)
(* [0,nx) and shifts the coordinate by boxx*(imod-i), a whole number of    *)
(* periods; an accepted point gets a block in [0,nxy) and coordinates      *)
(* inside that block.                                                      *)
C8_PeriodicWrap ==
    q.done =>
        LET i == (q.x - ax) \div boxx
            j == (q.y - ay) \div boxy
            bi == q.pr.ij % nx
            bj == q.pr.ij \div nx
        IN  /\ x_prd => /\ q.pr.x - q.x = boxx * ((i % nx) - i)
                        /\ (q.pr.x - q.x) % (bx - ax) = 0
                        /\ 0 <= i % nx /\ i % nx < nx
            /\ y_prd /\ (x_prd \/ q.pr.ok) =>
                        /\ q.pr.y - q.y = boxy * ((j % ny) - j)
                        /\ (q.pr.y - q.y) % (by - ay) = 0
            /\ q.pr.ok =>
                  /\ 0 <= q.pr.ij /\ q.pr.ij < nxy
                  /\ x_prd => bi = i % nx
                  /\ y_prd => bj = j % ny
                  /\ ax + bi * boxx <= q.pr.x /\ q.pr.x < ax + (bi + 1) * boxx
                  /\ ay + bj * boxy <= q.pr.y /\ q.pr.y < ay + (bj + 1) * boxy

(* a point left of the domain on a periodic x axis: negative block index *)
C8_Witness ==
    q.done /\ x_prd /\ q.x < ax /\ q.pr.ok /\ q.pr.x # q.x

(* C9: when remap accepts, (x,y) = (x'+ai*(bx-ax), y'+aj*(by-ay)), ai (aj) *)
(* is 0 if the block index was in range, 0 <= ci < nx, 0 <= cj < ny; remap *)
(* accepts exactly the points put_remap accepts, with the same block.      *)
C9_RemapImage ==
    q.done =>
        /\ q.rm.ok <=> q.pr.ok
        /\ q.rm.ok =>
              /\ q.x = q.rm.x + q.rm.ai * (bx - ax)
              /\ q.y = q.rm.y + q.rm.aj * (by - ay)
              /\ (ax <= q.x /\ q.x < bx) => q.rm.ai = 0
              /\ (ay <= q.y /\ q.y < by) => q.rm.aj = 0
              /\ 0 <= q.rm.ci /\ q.rm.ci < nx
              /\ 0 <= q.rm.cj /\ q.rm.cj < ny
              /\ q.rm.ij = q.rm.ci + nx * q.rm.cj
              /\ q.rm.ij = q.pr.ij

(* a point in a periodic image on both axes *)
C9_Witness ==
    q.done /\ q.rm.ok /\ q.rm.ai < 0 /\ q.rm.aj > 0

(* C10: a growth that would pass max_particle_memory ends the process with *)
(* VOROPP_MEMORY_ERROR and changes no block: a serial put that needs the   *)
(* growth leaves co, mem, id, p as they were, a reconcile leaves every     *)
(* block within the ceiling with arrays of its capacity; mem[b] never      *)
(* exceeds max_particle_memory.                                            *)
C10_CeilingRespected ==
    /\ [](\A b \in Blocks : mem[b] <= max_particle_memory)
    /\ [][Running /\ status' = "VOROPP_MEMORY_ERROR" =>
             /\ last'.op \in SerialPutOps => UNCHANGED <<co, mem, id, p>>
             /\ \A b \in Blocks : /\ mem'[b] <= max_particle_memory
                                  /\ Len(id'[b]) >= mem'[b]
                                  /\ mem'[b] # mem[b] => Len(id'[b]) = mem'[b]]_vars
    /\ [][/\ Running /\ InsertStep /\ last'.op \in SerialPutOps
          /\ Mappable(last'.x, last'.y)
          /\ LET b == put_remap(last'.x, last'.y).ij
             IN  co[b] = mem[b] /\ 2 * mem[b] > max_particle_memory
          => status' = "VOROPP_MEMORY_ERROR"]_vars

(* the process ended in a serial put that needed a growth past the ceiling *)
C10_Witness ==
    /\ status = "VOROPP_MEMORY_ERROR" /\ last.op \in SerialPutOps
    /\ \E b \in Blocks : co[b] = mem[b] /\ 2 * mem[b] > max_particle_memory

(* a step of clear: nothing else ends outside a region with last.op = clear *)
ClearStep == team = 0 /\ team' = 0 /\ last'.op = "clear"

(* C11: clear leaves co[b] = 0 for every block and, poly, max_radius = 0;  *)
(* mem[b] and the capacity of the block arrays are unchanged; clear after  *)
(* clear changes nothing, and clearing a cleared container gives the same  *)
(* container.                                                              *)
C11_ClearResets ==
    /\ [](clear_cont(clear_cont(Cont)) = clear_cont(Cont))
    /\ [][ClearStep =>
             /\ \A b \in Blocks : co'[b] = 0
             /\ poly => max_radius' = 0
             /\ mem' = mem
             /\ \A b \in Blocks : /\ Len(id'[b]) = Len(id[b])
                                  /\ Len(p'[b]) = Len(p[b])
             /\ last.op = "clear" => UNCHANGED <<contv, ovfv, max_r, vo>>]_vars

(* clear ran on a container with a grown block *)
C11_Witness ==
    /\ Running /\ last.op = "clear"
    /\ \E b \in Blocks : mem[b] > init_mem /\ co[b] = 0

(* a step of put_reconcile_overflow *)
ReconcileStep == team = 0 /\ team' = 0 /\ last'.op = "reconcile"

(* ids of the calls accepted since clear *)
LiveIds == {l[1] : l \in live}

(* no store has landed behind the arrays of a block *)
InBounds == \A b \in Blocks : Len(id[b]) = mem[b] /\ Len(p[b]) = mem[b]

(* slot m of block b holds the call l *)
Holds(b, m, l) ==
    /\ m < Len(id[b]) /\ m < Len(p[b])
    /\ id[b][m + 1] = l[1]
    /\ p[b][m + 1] = Coord(l[4], l[5], l[6])

(* the slots below co hold exactly the calls accepted since clear *)
LiveStored ==
    /\ \A l \in live : l[3] < co[l[2]] /\ Holds(l[2], l[3], l)
    /\ \A b \in Blocks : \A m \in 0 .. co[b] - 1 :
          \E l \in live : l[2] = b /\ l[3] = m

(* C12: a particle lives until clear: put_reconcile_overflow applies no    *)
(* overflow record of a call made before the last clear, and right after   *)
(* it the slots below co hold exactly the particles accepted since that    *)
(* clear; stated for the runs in which no store went out of bounds.        *)
C12_LivesUntilClear ==
    [][ReconcileStep /\ Running /\ status' = "running" /\ InBounds =>
          /\ \A k \in 1 .. overflowPtCt : ijk_m_id_overflow[k][3] \in LiveIds
          /\ LiveStored']_vars

(* the supremum, 0 at least, of the radii of the calls accepted since clear *)
SupRadius ==
    LET S == {l[6] : l \in live} \cup {0}
    IN  CHOOSE m \in S : \A r \in S : r <= m

(* C13: poly: right after put_reconcile_overflow max_radius is at most the *)
(* supremum (0 at least) of the radii accepted since the last clear (that  *)
(* it is at least that supremum is C5); a step other than clear never      *)
(* lowers max_radius; put_reconcile_overflow right after clear leaves      *)
(* max_radius = 0.                                                         *)
C13_MaxRadiusSupremum ==
    /\ [](poly /\ Running /\ last.op = "reconcile" => max_radius <= SupRadius)
    /\ [][poly /\ ~ClearStep => max_radius' >= max_radius]_vars
    /\ [][poly /\ ReconcileStep /\ last.op = "clear" /\ status' = "running"
             => max_radius' = 0]_vars

(* calls accepted into block b since clear *)
AcceptedIn(b) == Cardinality({l \in live : l[2] = b})

RECURSIVE CapFrom(_, _)
CapFrom(c, n) == IF c >= n THEN c ELSE CapFrom(2 * c, n)

(* the smallest init_mem*2^k, k >= 0, that is >= n *)
SmallestCap(n) == CapFrom(init_mem, n)

(* C14: without clear, when all insertions so far were serial, and right   *)
(* after the put_reconcile_overflow that follows a batch started with      *)
(* nothing pending, co[b] is the number N of insertions accepted into      *)
(* block b and mem[b] is the smallest init_mem*2^k >= N.                   *)
C14_SmallestCapacity ==
    /\ Running /\ ~cleared
    /\ par = "none" \/ (last.op = "reconcile" /\ snap.valid)
    => \A b \in Blocks : /\ co[b] = AcceptedIn(b)
                         /\ mem[b] = SmallestCap(AcceptedIn(b))

(* three put_parallel into an empty block of capacity 1: two of them went  *)
(* through the overflow buffer and reconcile grew the block to 4           *)
C14_Witness ==
    /\ Running /\ ~cleared /\ last.op = "reconcile" /\ snap.valid
    /\ \E b \in Blocks : /\ snap.c.co[b] = 0 /\ snap.c.mem[b] = 1
                          /\ co[b] = 3 /\ mem[b] = 4

(* C15: find_voronoi_cell reports that nothing was found when the          *)
(* container holds no particle and when the point lies outside the domain  *)
(* on an axis that is not periodic; in the second case it returns before   *)
(* the search is run; whenever nothing was found rx, ry and pid keep their *)
(* values; no query changes the container.                                 *)
OutsideDomain(x, y) ==
    \/ ~x_prd /\ (x < ax \/ x > bx)
    \/ ~y_prd /\ (y < ay \/ y > by)
C15_NotFound ==
    /\ [](q.done =>
            /\ SumCo = 0 => ~q.res.found
            /\ OutsideDomain(q.x, q.y) => ~q.res.found /\ ~q.res.searched
            /\ ~q.res.found =>
                 q.res.rx = Unset /\ q.res.ry = Unset /\ q.res.pid = Unset)
    /\ [][q'.done => UNCHANGED <<contv, ovfv, max_r, vo>>]_vars
C15_Witness ==
    /\ q.done /\ ~q.res.found
    /\ OutsideDomain(q.x, q.y) /\ SumCo > 0 /\ x_prd /\ ~y_prd
C15_WitnessEmpty ==
    q.done /\ ~q.res.found /\ q.res.searched /\ SumCo = 0


(* C16: for a query point inside the domain [ax,bx] x [ay,by] of a        *)
(* container that holds a particle and has nothing pending,                *)
(* find_voronoi_cell finds a particle: pid is the id of a stored particle, *)
(* (rx,ry) is its position or a periodic image of it, and no stored        *)
(* particle nor periodic image of one is strictly closer to the point, in  *)
(* the squared distance (container_2d) or the power distance               *)
(* (container_poly_2d).                                                    *)
InDomain(x, y) == ax <= x /\ x <= bx /\ ay <= y /\ y <= by
NearestTo(x, y, res, n) ==
    \E s \in Sites : \E kx \in ImagesX(n), ky \in ImagesY(n) :
        /\ res.pid = id[s[1]][s[2] + 1]
        /\ res.rx = p[s[1]][s[2] + 1][1] + kx * (bx - ax)
        /\ res.ry = p[s[1]][s[2] + 1][2] + ky * (by - ay)
        /\ \A t \in Sites : \A jx \in ImagesX(n), jy \in ImagesY(n) :
              Dist(x, y, p[s[1]][s[2] + 1], kx, ky)
                 <= Dist(x, y, p[t[1]][t[2] + 1], jx, jy)
C16_NearestSite ==
    q.done /\ InDomain(q.x, q.y) /\ SumCo > 0 /\ overflowPtCt = 0
       => q.res.found /\ NearestTo(q.x, q.y, q.res, MaxImages)
(* the same for every point that remap accepts: the half-open box, and     *)
(* every point on a periodic axis                                          *)
C16_NearestAccepted ==
    q.done /\ remap(q.x, q.y).ok /\ SumCo > 0 /\ overflowPtCt = 0
       => q.res.found /\ NearestTo(q.x, q.y, q.res, MaxImages + 2)
C16_Witness ==
    /\ q.done /\ q.res.found /\ InDomain(q.x, q.y) /\ SumCo = 2
    /\ x_prd /\ q.res.rx >= bx

(* C17: an accepted put with an ordering changes the container as put     *)
(* does and appends to the ordering one pair (block, slot): the slot is    *)
(* co[block] before the call, it lies within the capacity of the block     *)
(* after the call, and the block holds the id and the remapped position of *)
(* the particle there; pairs already in the ordering stay in place, and no *)
(* rejected call and no other operation changes the ordering.              *)
OrderStep == InsertStep /\ last'.op = "put_order"
OrderAddress ==
       IF OrderStep /\ status' = "running" /\ Mappable(last'.x, last'.y)
       THEN LET c == put(Cont, last'.i, last'.x, last'.y, last'.r)
                rm == put_remap(last'.x, last'.y)
                b == rm.ij
                m == co[b]
            IN  /\ co' = c.co /\ mem' = c.mem /\ id' = c.id /\ p' = c.p
                /\ max_radius' = c.max_radius
                /\ vo' = Append(vo, <<b, m>>)
                /\ co'[b] = m + 1
                /\ m < mem'[b]
                /\ m < Len(id'[b]) /\ id'[b][m + 1] = last'.i
                /\ m < Len(p'[b]) /\ p'[b][m + 1] = Coord(rm.x, rm.y, last'.r)
       ELSE vo' = vo
C17_OrderAddress == [][OrderAddress]_vars
(* the same when no block has particles waiting in the overflow buffer *)
C17_OrderAddressSettled ==
    [][(\A b \in Blocks : co[b] <= mem[b]) => OrderAddress]_vars
C17_Witness ==
    /\ Running /\ last.op = "put_order" /\ Len(vo) = 2
    /\ vo[1][1] = vo[2][1] /\ vo[2][2] = 1 /\ mem[vo[2][1]] = 2
    /\ id[vo[2][1]][2] = last.i

(* C18: when point_inside returns true the point lies in the closed box   *)
(* ax <= x <= bx, ay <= y <= by and point_inside_walls is true for it; for *)
(* a point outside the closed box it returns false and point_inside_walls  *)
(* is not called; the call changes nothing in the container.               *)
C18_PointInside ==
    /\ [](q.done =>
            /\ q.res.ret => InDomain(q.x, q.y) /\ q.res.walls /\ q.w
            /\ ~InDomain(q.x, q.y) => ~q.res.ret /\ ~q.res.walls)
    /\ [][q'.done => UNCHANGED <<config, nt, contv, ovfv, max_r, vo>>]_vars
C18_Witness ==
    q.done /\ q.res.ret /\ q.x = bx /\ q.y = by /\ ~x_prd /\ ~y_prd

(* C20: the atomic capture gives an accepted put_parallel call the slot   *)
(* co[b] and raises co[b] by one, and no call accepted since clear has     *)
(* that slot of that block; two threads that have reserved and not yet     *)
(* stored never hold the same (block, slot); a store of a thread changes   *)
(* id and p at most at the slot that thread reserved; in a batch that      *)
(* started with nothing pending the slots its calls took in block b are    *)
(* exactly those from the co[b] before the batch to co[b]-1, one call      *)
(* each, and after the put_reconcile_overflow that follows it every slot   *)
(* below co[b] holds the id and the remapped position of the call that     *)
(* reserved it.                                                            *)
ParallelStep == InsertStep /\ last'.op = "put_parallel"
BatchLive(b) == {l \in live : l[2] = b /\ l[1] \in {c[1] : c \in snap.pts}}
C20_UniqueDenseSlots ==
    /\ [](Running =>
            \A t, u \in Threads :
               t # u /\ pc[t] = "reserved" /\ pc[u] = "reserved"
                  => <<loc[t].ij, loc[t].m>> # <<loc[u].ij, loc[u].m>>)
    /\ [](Running /\ snap.valid =>
            \A b \in Blocks :
               /\ {l[3] : l \in BatchLive(b)} = snap.c.co[b] .. co[b] - 1
               /\ Cardinality(BatchLive(b)) = co[b] - snap.c.co[b])
    /\ [][ParallelStep /\ Running /\ Mappable(last'.x, last'.y) =>
            \E t \in Threads :
               LET b == loc'[t].ij
               IN  /\ pc[t] = "idle" /\ pc'[t] = "reserved"
                   /\ loc'[t].i = last'.i
                   /\ loc'[t].m = co[b]
                   /\ co' = [co EXCEPT ![b] = @ + 1]
                   /\ \A l \in live : ~(l[2] = b /\ l[3] = co[b])
                   /\ snap.valid => RecordsOf(b, co[b]) = {}]_vars
    /\ [][Running =>
            \A t \in Threads : pc[t] = "reserved" /\ pc'[t] = "idle" =>
               /\ \A b \in Blocks : \A k \in 1 .. Len(id[b]) :
                     id'[b][k] # id[b][k] \/ p'[b][k] # p[b][k]
                        => b = loc[t].ij /\ k = loc[t].m + 1
               /\ \A l \in live :
                     l[2] = loc[t].ij /\ l[3] = loc[t].m => l[1] = loc[t].i]_vars
    /\ [][ReconcileStep /\ snap.valid /\ status' = "running" => LiveStored']_vars
(* after reconcile: a block whose first batch call was stored directly and *)
(* whose later ones went through the overflow buffer                       *)
C20_Witness ==
    /\ Running /\ last.op = "reconcile" /\ snap.valid
    /\ \E b \in Blocks : /\ snap.c.co[b] < snap.c.mem[b]
                         /\ co[b] > snap.c.mem[b]
                         /\ Cardinality(BatchLive(b)) >= 2
(* two threads hold reservations in the same block at the same time *)
C20_WitnessRace ==
    /\ Running /\ snap.valid /\ pc[0] = "reserved" /\ pc[1] = "reserved"
    /\ loc[0].ij = loc[1].ij /\ loc[0].m >= mem[loc[0].ij]
    /\ loc[1].m < mem[loc[1].ij]

(* C21: at most one thread is inside the critical section of put_parallel *)
(* and only that thread changes overflowPtCt, overflow_mem_numPt and the   *)
(* overflow arrays; when no thread is inside, overflowPtCt <=              *)
(* overflow_mem_numPt and the buffer holds exactly one record, with its    *)
(* block, slot, id and coordinates, for every call that finished with a    *)
(* slot at or past mem; the doubling leaves room for the record that       *)
(* caused it and keeps every record appended before; the record is written *)
(* at the index overflowPtCt had on entry, below overflow_mem_numPt.       *)
InCrit == {t \in Threads : pc[t] \in CritPcs}
Overflowed ==
    {l \in live : l[3] >= mem[l[2]] /\ PendingOf(l[2], l[3]) = {}
                  /\ \A t \in InCrit : loc[t].i # l[1]}
C21_CriticalSection ==
    /\ [](Running => /\ Cardinality(InCrit) <= 1
                     /\ \A t \in InCrit : crit = t
                     /\ InCrit = {} => crit = NoThread)
    /\ [](Running /\ InCrit = {} =>
            /\ overflowPtCt <= overflow_mem_numPt
            /\ Len(ijk_m_id_overflow) = overflowPtCt
            /\ Len(p_overflow) = overflowPtCt
            /\ Cardinality(Overflowed) = overflowPtCt
            /\ \A l \in Overflowed : \E k \in 1 .. overflowPtCt :
                  /\ ijk_m_id_overflow[k] = <<l[2], l[3], l[1]>>
                  /\ p_overflow[k] = Coord(l[4], l[5], l[6]))
    /\ [][ovfv' # ovfv => \E t \in InCrit : crit = t /\ pc'[t] # pc[t]]_vars
    /\ [][\A t \in Threads : pc[t] = "counted" /\ pc'[t] = "grown" =>
             /\ overflowPtCt' = overflowPtCt
             /\ overflowPtCt' <= overflow_mem_numPt'
             /\ overflow_mem_numPt' \in {overflow_mem_numPt, 2 * overflow_mem_numPt}
             /\ \A k \in 1 .. overflowPtCt - 1 :
                   /\ k <= Len(ijk_m_id_overflow') /\ k <= Len(p_overflow')
                   /\ ijk_m_id_overflow'[k] = ijk_m_id_overflow[k]
                   /\ p_overflow'[k] = p_overflow[k]]_vars
    /\ [][\A t \in Threads : pc[t] = "grown" /\ pc'[t] = "idle" =>
             /\ opti[t] = overflowPtCt - 1
             /\ opti[t] < overflow_mem_numPt
             /\ opti[t] = Len(ijk_m_id_overflow)
             /\ ijk_m_id_overflow' = Append(ijk_m_id_overflow,
                                            <<loc[t].ij, loc[t].m, loc[t].i>>)
             /\ p_overflow' = Append(p_overflow,
                                     Coord(loc[t].x, loc[t].y, loc[t].r))]_vars
(* two records are in the buffer after a doubling, and a third call waits *)
C21_Witness ==
    /\ Running /\ InCrit = {} /\ overflowPtCt = 2
    /\ overflow_mem_numPt = 2 * overflow_mem_init
    /\ ijk_m_id_overflow[1][1] = ijk_m_id_overflow[2][1]
(* one thread is inside the critical section while another waits for it *)
C21_WitnessWait ==
    /\ Running /\ pc[0] = "counted" /\ pc[1] = "reserved"
    /\ ~put_parallel_direct(loc[1].m, mem[loc[1].ij])

(* C22: under fair scheduling every put_parallel call that has started    *)
(* returns, and every parallel region ends, unless the process has died;   *)
(* when the region has ended no thread is inside a call and every accepted *)
(* call is either stored at its slot or recorded in the overflow buffer.   *)
Settled(l) ==
    \/ l[3] < mem[l[2]] /\ Holds(l[2], l[3], l)
    \/ /\ l[3] >= mem[l[2]]
       /\ \E k \in 1 .. overflowPtCt :
             /\ ijk_m_id_overflow[k] = <<l[2], l[3], l[1]>>
             /\ p_overflow[k] = Coord(l[4], l[5], l[6])
C22_RunsToCompletion ==
    /\ \A t \in Threads :
          (pc[t] # "idle") ~> (pc[t] = "idle" \/ status # "running")
    /\ (team > 0) ~> (team = 0 \/ status # "running")
    /\ [](Running /\ team = 0 =>
            /\ \A t \in Threads : pc[t] = "idle"
            /\ \A l \in live : Settled(l))
(* a region of two threads has ended with a call stored directly, one in   *)
(* the overflow buffer and one rejected                                    *)
C22_Witness ==
    /\ Running /\ team = 0 /\ last.op = "put_parallel" /\ nextId = 3
    /\ overflowPtCt = 1 /\ Cardinality(live) = 2

(* C23: no step of a put_parallel call changes mem, the length of a block *)
(* array or max_radius; mem and max_radius change only outside parallel    *)
(* regions, in put, put_reconcile_overflow and clear.                      *)
ThreadStep == \E t \in Threads : pc'[t] # pc[t]
C23_MemFrame ==
    /\ [][ParallelStep \/ ThreadStep \/ team > 0 =>
             /\ mem' = mem
             /\ max_radius' = max_radius
             /\ \A b \in Blocks : /\ Len(id'[b]) = Len(id[b])
                                  /\ Len(p'[b]) = Len(p[b])]_vars
    /\ [][mem' # mem \/ max_radius' # max_radius =>
             /\ team = 0 /\ team' = 0
             /\ last'.op \in {"put", "put_order", "reconcile", "clear"}]_vars
(* inside a poly region: a call stored directly and a call in the overflow *)
(* buffer, capacity and max_radius as before the region                    *)
C23_Witness ==
    /\ Running /\ team > 0 /\ poly /\ snap.valid /\ overflowPtCt = 1
    /\ \A t \in Threads : pc[t] = "idle"
    /\ max_r[1] > 0 /\ max_radius = 0
    /\ \E b \in Blocks : co[b] = 2 /\ mem[b] = init_mem /\ snap.c.co[b] = 0

(* C24: a put_reconcile_overflow that returns leaves every co[b]           *)
(* unchanged, sets overflowPtCt to 0 and, for poly, every max_r[t] to 0;   *)
(* a slot of a block array that no overflow record names keeps its         *)
(* content, and a slot that records name holds the id and coordinates of   *)
(* the last of them; when the overflow buffer is empty the call changes    *)
(* nothing else in the container.                                          *)
ReconcileReturns == ReconcileStep /\ Running /\ status' = "running"
ReconcileEffect ==
    /\ co' = co
    /\ overflowPtCt' = 0
    /\ poly => max_r' = [k \in 1 .. nt |-> 0]
    /\ \A b \in Blocks : \A k \in 0 .. mem[b] - 1 :
          k < Len(id[b]) /\ k < Len(p[b]) /\ RecordsOf(b, k) = {} =>
             id'[b][k + 1] = id[b][k + 1] /\ p'[b][k + 1] = p[b][k + 1]
    /\ \A k \in 1 .. overflowPtCt :
          LET rec == ijk_m_id_overflow[k]
          IN  (\A j \in RecordsOf(rec[1], rec[2]) : j <= k) =>
                 /\ rec[2] < mem'[rec[1]]
                 /\ id'[rec[1]][rec[2] + 1] = rec[3]
                 /\ p'[rec[1]][rec[2] + 1] = p_overflow[k]
C24_ReconcileFrame ==
    [][ReconcileReturns =>
          /\ ReconcileEffect
          /\ overflowPtCt = 0 => UNCHANGED <<contv, overflow_mem_numPt>>]_vars
(* C24 amended: as C24, but with an empty overflow buffer the call still  *)
(* raises max_radius (poly) to the largest max_r[t]; it changes nothing in *)
(* the container when it follows another put_reconcile_overflow or when no *)
(* put_parallel was accepted before it.                                    *)
FoldedRadius ==
    LET S == {max_radius} \cup {max_r[k] : k \in 1 .. Len(max_r)}
    IN  CHOOSE m \in S : \A r \in S : r <= m
C24_ReconcileFold ==
    [][ReconcileReturns =>
          /\ ReconcileEffect
          /\ overflowPtCt = 0 =>
                /\ UNCHANGED <<co, mem, id, p, overflow_mem_numPt>>
                /\ max_radius' = IF poly THEN FoldedRadius ELSE max_radius
          /\ overflowPtCt = 0 /\ (last.op = "reconcile" \/ par = "none") =>
                UNCHANGED <<contv, overflow_mem_numPt>>]_vars
(* after the reconcile of a poly batch that was stored directly: the       *)
(* buffer was empty, and max_radius went up from 0                         *)
C24_Witness ==
    /\ Running /\ last.op = "reconcile" /\ poly /\ snap.valid
    /\ snap.c.max_radius = 0 /\ max_radius > 0
    /\ \A b \in Blocks : mem[b] = init_mem

(* C25: an accepted serial put, also one made while overflow records are  *)
(* pending, grows the block when it is full and writes the particle at a   *)
(* slot below mem[b]; and, no clear having been called, right after a      *)
(* put_reconcile_overflow every accepted particle is at its slot.          *)
SerialStep == InsertStep /\ last'.op \in SerialPutOps
C25_SerialPutInBounds ==
    /\ [][SerialStep /\ status' = "running" /\ Mappable(last'.x, last'.y) =>
            LET rm == put_remap(last'.x, last'.y)
                b == rm.ij
                m == co[b]
            IN  /\ m >= mem[b] => mem'[b] > mem[b]
                /\ m < mem'[b]
                /\ m < Len(id'[b]) /\ id'[b][m + 1] = last'.i
                /\ m < Len(p'[b]) /\ p'[b][m + 1] = Coord(rm.x, rm.y, last'.r)]_vars
    /\ [](Running /\ ~cleared /\ last.op = "reconcile" => LiveStored)
(* the same for puts into blocks with co <= mem *)
C25_SerialPutSettled ==
    [][SerialStep /\ status' = "running" /\ Mappable(last'.x, last'.y) =>
          LET rm == put_remap(last'.x, last'.y)
              b == rm.ij
              m == co[b]
          IN  m <= mem[b] =>
                /\ m = mem[b] => mem'[b] = 2 * mem[b]
                /\ m < mem'[b]
                /\ m < Len(id'[b]) /\ id'[b][m + 1] = last'.i
                /\ m < Len(p'[b]) /\ p'[b][m + 1] = Coord(rm.x, rm.y, last'.r)]_vars

(* C26: a poly put_parallel call accesses max_r[t] only with 0 <= t < nt,  *)
(* whatever the number of threads of the region, and a                     *)
(* put_reconcile_overflow that returns leaves max_radius at least as large *)
(* as every max_r slot was.                                                *)
StoreBy(t) == pc[t] = "reserved" /\ pc'[t] = "idle"
C26_ThreadIndexInRange ==
    /\ [][\A t \in Threads : poly /\ StoreBy(t) =>
             0 <= t /\ t < nt /\ t < Len(max_r)]_vars
    /\ [][poly /\ ReconcileReturns =>
             \A k \in 1 .. Len(max_r) : max_radius' >= max_r[k]]_vars
(* the same for regions of at most nt threads *)
C26_TeamWithinNt ==
    /\ [][\A t \in Threads : poly /\ team <= nt /\ StoreBy(t) =>
             /\ 0 <= t /\ t < nt /\ t < Len(max_r)
             /\ max_r'[t + 1] >= loc[t].r
             /\ \A u \in Threads \ {t} : u < nt => max_r'[u + 1] = max_r[u + 1]]_vars
    /\ [][poly /\ ReconcileReturns =>
             \A k \in 1 .. Len(max_r) : max_radius' >= max_r[k]]_vars

(* C27: when find_voronoi_cell finds the particle of the record w, pid is *)
(* the id stored at slot w.l of block w.ij, and (rx,ry) is the position    *)
(* stored there moved by ai periods in x and aj in y; on a periodic axis   *)
(* ai is remap's image offset of the query point plus the floor of         *)
(* (block index of the query + w.di) / nx, on a non-periodic axis ai = 0;  *)
(* the same for aj with ny and w.dj.                                       *)
PeriodsX(x, y, w) ==
    IF x_prd THEN remap(x, y).ai + ((remap(x, y).ci + w.di) \div nx) ELSE 0
PeriodsY(x, y, w) ==
    IF y_prd THEN remap(x, y).aj + ((remap(x, y).cj + w.dj) \div ny) ELSE 0
C27_ReturnedImage ==
    q.done /\ q.res.found =>
       /\ q.w.ij \in Blocks /\ q.w.l < co[q.w.ij]
       /\ q.res.pid = id[q.w.ij][q.w.l + 1]
       /\ q.res.rx = p[q.w.ij][q.w.l + 1][1] + PeriodsX(q.x, q.y, q.w) * (bx - ax)
       /\ q.res.ry = p[q.w.ij][q.w.l + 1][2] + PeriodsY(q.x, q.y, q.w) * (by - ay)
(* a query from another period, answered by an image across the edge of    *)
(* the remapped period: both terms of ai are not 0                         *)
C27_Witness ==
    /\ q.done /\ q.res.found /\ x_prd /\ ~y_prd
    /\ remap(q.x, q.y).ai # 0
    /\ (remap(q.x, q.y).ci + q.w.di) \div nx # 0
    /\ q.res.ry = p[q.w.ij][q.w.l + 1][2]

(* C29: change_number_thread(n) leaves co, mem, id, p, max_radius, the    *)
(* overflow buffer with its count and capacity, and the geometry           *)
(* unchanged; afterwards nt = n and, for poly, max_r has n slots, all 0.   *)
ChangeStep == team = 0 /\ team' = 0 /\ last'.op = "change_number_thread"
C29_ThreadStateOnly ==
    [][ChangeStep =>
          /\ UNCHANGED <<contv, ovfv, config, vo, status>>
          /\ nt' = last'.i
          /\ poly => Len(max_r') = nt' /\ \A k \in 1 .. nt' : max_r'[k] = 0
          /\ ~poly => max_r' = max_r]_vars
(* after insertions that left particles in the blocks and a record in the  *)
(* overflow buffer, the number of threads was raised from 1 to 2           *)
C29_Witness ==
    /\ Running /\ last.op = "change_number_thread" /\ last.i = 2 /\ poly
    /\ nt = 2 /\ max_r = <<0, 0>> /\ overflowPtCt = 1 /\ SumCo = 2
    /\ max_radius = 0

====
